---- MODULE Spec2Model ----
(***************************************************************************)
(* A model of backend_src/lambda_function.py: the resume-tailoring guard-  *)
(* rail pipeline (_ai_tailor_resume_html and its helpers) and the request  *)
(* handlers working on the document table and the blob store.              *)
(*                                                                         *)
(* Text is modelled as a sequence of lines, a line as a sequence of        *)
(* whitespace-separated tokens, and an HTML string as a sequence of        *)
(* tokens ("\n" is the line-break token).  The character-level functions   *)
(* of the code (lower, strip, escape, the regular expressions) are tables  *)
(* over the finite vocabulary; a Python substring test becomes a test for  *)
(* a contiguous run of tokens.                                             *)
(***************************************************************************)
EXTENDS Integers, Sequences, FiniteSets, TLC

\* ------------------------------------------------------------------ bounds
\* Longest resume text (in lines) drawn as an input of the tailoring function.
MaxLines == 2
\* Longest completion (in tokens) the generation backend returns.
MaxRespLen == 2
\* Largest OPENAI_MAX_RETRIES value tried (the smallest tried is -1).
MaxRetriesCfg == 2

\* ------------------------------------------------------------------- state
\* One call of _ai_tailor_resume_html.
\* t_pc: "idle" (not called), "called" (line 226 reached), "attempt1"
\* (line 390 done), "returned".  t_first and t_second keep what the first and
\* the second _call_once returned; t_prompts lists the prompts sent.
\* Before the first call t_html, t_first, t_second and t_ret are the empty string,
\* which _call_once never returns.
VARIABLES t_pc, t_resume, t_key, t_retries, t_html, t_first, t_second,
          t_prompts, t_ret

tvars == <<t_pc, t_resume, t_key, t_retries, t_html, t_first, t_second,
           t_prompts, t_ret>>

\* The stores and the last request.
\* docs: DOCS_TABLE, a set of items with key (userId, documentId).
\* blobs: the bucket, a function from the keys stored to [body, contentType].
\* apps: APPL_TABLE.  clock: time.time() in seconds.  nextId: the next
\* uuid4 (document ids are 1, 2, ...; 0 stands for the empty string).
\* last: the request being answered and its response: op, the user and the
\* document id it named, the status returned (Raised when the handler let an
\* exception out), hit (the store operation whose failure ended it, "none"
\* when none did) and soft (the failures the handler passed over); NoResponse
\* between two requests.  key: the explicit storage key a delete request
\* named, NoKeyGiven when it named none.
VARIABLES docs, blobs, apps, clock, nextId, last

svars == <<docs, blobs, apps, clock, nextId, last>>

\* The requests that run interleaved: for each, where its handler is (pc), the
\* handler (kind), the count it read (seen) and the documentId it made (id).
VARIABLES reqs
rvars == <<reqs>>

\* Calls of _detect_section_order on one resume text: the text, what the last
\* call returned, what the call before it returned, and the calls made; and
\* one call of _order_ok with that section order: whether it was made
\* (d_checked), the output given to it and what it returned.
VARIABLES d_text, d_order, d_prev, d_calls, d_checked, d_html, d_ok
\* One call of _call_once: the completion the backend answered with, whether
\* the call was made, and the page it returned.
VARIABLES c_text, c_done, c_html
dvars == <<d_text, d_order, d_prev, d_calls, d_checked, d_html, d_ok,
           c_text, c_done, c_html>>

vars == <<svars, tvars, rvars, dvars>>

\* ------------------------------------------------------- token vocabulary
NL == "\n"

\* str.lower() on a token.
Lower(t) ==
  CASE t = "Jane"            -> "jane"
    [] t = "JANE"            -> "jane"
    [] t = "EXPERIENCE"      -> "experience"
    [] t = "Experience"      -> "experience"
    [] t = "Education:"      -> "education:"
    [] t = "Education"       -> "education"
    [] t = "Tailor"          -> "tailor"
    [] t = "OpenAI"          -> "openai"
    [] t = "Your"            -> "your"
    [] t = "Name"            -> "name"
    [] t = "Original"        -> "original"
    [] t = "<!DOCTYPE html>" -> "<!doctype html>"
    [] t = "<STYLE>"         -> "<style>"
    [] t = "</STYLE>"        -> "</style>"
    [] t = "<HEAD>"          -> "<head>"
    [] t = "<HTML>"          -> "<html>"
    [] OTHER                 -> t

LowerSeq(s) == [i \in 1..Len(s) |-> Lower(s[i])]

\* How str.isupper()/str.istitle() see a token: "upper" (cased, all
\* upper-case), "title" (title-cased), "lower" (has a lower-case character in
\* a place title-case forbids), "none" (no cased character).
CaseOf(t) ==
  CASE t \in {"JANE", "EXPERIENCE"}                             -> "upper"
    [] t \in {"Jane", "Experience", "Education", "Education:"}  -> "title"
    [] t \in {"<", ">", "&", "555-1234", NL}                   -> "none"
    [] OTHER                                                    -> "lower"

\* len() of a token.
CharLen(t) ==
  CASE t \in {"<", ">", "&", NL}                -> 1
    [] t \in {"Jane", "JANE", "jane"}            -> 4
    [] t \in {"j@x.io", "worked"}                -> 6
    [] t \in {"Education", "education"}          -> 9
    [] t \in {"Education:", "EXPERIENCE", "Experience", "experience"} -> 10
    [] t \in {"header", "skills", "awards"}     -> 6
    [] t \in {"summary"}                        -> 7
    [] t \in {"projects"}                       -> 8
    [] t \in {"objective", "technical"}         -> 9
    [] t \in {"activities"}                     -> 10
    [] t \in {"publications"}                   -> 12
    [] t \in {"volunteering"}                   -> 12
    [] t \in {"certifications"}                 -> 14
    [] OTHER                                     -> 5

\* re.search(r"education|experience|projects|skills", token, re.I)
HasKeyword(t) ==
  Lower(t) \in {"education", "education:", "experience", "projects", "skills"}

\* The match of CONTACT_EMAIL_RE / CONTACT_PHONE_RE / LINK_RE inside a token
\* ("" when there is none).
EmailOf(t) == IF t = "j@x.io" THEN t ELSE ""
PhoneOf(t) == IF t = "555-1234" THEN t ELSE ""
LinkOf(t) == IF t \in {"www.x.io", "https://x.io"} THEN t ELSE ""

\* str.replace("<", "&lt;").replace(">", "&gt;") on a token.
EscAngle(t) ==
  CASE t = "<" -> "&lt;"
    [] t = ">" -> "&gt;"
    [] OTHER   -> t

\* html.escape() on a token.
HtmlEscape(t) ==
  CASE t = "<" -> "&lt;"
    [] t = ">" -> "&gt;"
    [] t = "&" -> "&amp;"
    [] OTHER   -> t

\* str.strip(" \t:-\u2022\u2014") on a token: of the vocabulary only a trailing
\* colon is such a character.
StripEnds(t) ==
  CASE t = "Education:" -> "Education"
    [] t = "education:" -> "education"
    [] OTHER            -> t
\* str.rstrip(":") on a token.
RStripColon(t) == StripEnds(t)
\* s[:-1] when s.endswith(":"), on the last token of s.
DropColon(t) == StripEnds(t)

\* ------------------------------------------------------ sequence helpers
Min(a, b) == IF a < b THEN a ELSE b

RECURSIVE Flatten(_)
\* "\n".join(lines), each line " ".join(tokens)
Flatten(text) ==
  IF Len(text) = 0 THEN <<>>
  ELSE IF Len(text) = 1 THEN text[1]
  ELSE text[1] \o <<NL>> \o Flatten(Tail(text))

\* Hay token h contains needle token n as a substring.
TokContains(h, n) == h = n \/ (h = "education:" /\ n = "education")

MatchAt(hay, needle, i) ==
  /\ i + Len(needle) <= Len(hay)
  /\ \A j \in 1..Len(needle) : TokContains(hay[i + j], needle[j])

\* str.find: the offset of the first occurrence, -1 when there is none.
Find(hay, needle) ==
  LET hits == {i \in 0..Len(hay) : MatchAt(hay, needle, i)}
  IN IF hits = {} THEN -1 ELSE CHOOSE i \in hits : \A k \in hits : i <= k

\* needle in hay
Contains(hay, needle) == Find(hay, needle) # -1

\* some token of the string satisfies the test
HasTok(s, toks) == \E i \in 1..Len(s) : s[i] \in toks

\* ------------------------------------------- contact bits (lines 159-187)
\* lines = [ln.strip() for ln in text.splitlines() if ln.strip()]
NonEmptyLines(text) == SelectSeq(text, LAMBDA ln : Len(ln) > 0)

\* The first of the first six non-empty lines without a section keyword.
NameOf(text) ==
  LET lines == NonEmptyLines(text)
      first6 == SubSeq(lines, 1, Min(6, Len(lines)))
      ok == {i \in 1..Len(first6) : ~ \E j \in 1..Len(first6[i]) : HasKeyword(first6[i][j])}
  IN IF ok = {} THEN <<>> ELSE first6[CHOOSE i \in ok : \A k \in ok : i <= k]

\* CONTACT_EMAIL_RE.search(text): the first match, "" when there is none.
FirstEmail(flat) ==
  LET hits == {i \in 1..Len(flat) : EmailOf(flat[i]) # ""}
  IN IF hits = {} THEN "" ELSE EmailOf(flat[CHOOSE i \in hits : \A k \in hits : i <= k])

\* CONTACT_PHONE_RE.search(text): the first match, "" when there is none.
FirstPhone(flat) ==
  LET hits == {i \in 1..Len(flat) : PhoneOf(flat[i]) # ""}
  IN IF hits = {} THEN "" ELSE PhoneOf(flat[CHOOSE i \in hits : \A k \in hits : i <= k])

RECURSIVE Uniq(_, _)
\* for u in links: if u not in seen: uniq_links.append(u); seen.add(u)
Uniq(s, seen) ==
  IF Len(s) = 0 THEN <<>>
  ELSE IF Head(s) \in seen THEN Uniq(Tail(s), seen)
  ELSE <<Head(s)>> \o Uniq(Tail(s), seen \cup {Head(s)})

LinksOf(flat) ==
  LET found == SelectSeq([i \in 1..Len(flat) |-> LinkOf(flat[i])], LAMBDA u : u # "")
      uniq == Uniq(found, {})
  IN SubSeq(uniq, 1, Min(5, Len(uniq)))

\* _extract_contact_bits.  Every line of the vocabulary is shorter than 120
\* characters, so name[:120] keeps the line whole.
ExtractContactBits(text) ==
  [name  |-> NameOf(text),
   email |-> FirstEmail(Flatten(text)),
   phone |-> FirstPhone(Flatten(text)),
   links |-> LinksOf(Flatten(text))]

\* _ensure_invariants_present
EnsureInvariantsPresent(html, invariants) ==
  IF html = <<>> THEN FALSE
  ELSE /\ (invariants.name # <<>> =>
             Contains(LowerSeq(html), LowerSeq(invariants.name)))
       /\ (invariants.email # "" =>
             Contains(LowerSeq(html), <<Lower(invariants.email)>>))

\* ------------------------------------------ section order (lines 189-222)
SECTION_CANON ==
  { <<"header">>, <<"summary">>, <<"objective">>, <<"skills">>,
    <<"technical", "skills">>, <<"experience">>, <<"work", "experience">>,
    <<"professional", "experience">>, <<"projects">>, <<"education">>,
    <<"certifications">>, <<"awards">>, <<"publications">>, <<"activities">>,
    <<"volunteering">> }

RECURSIVE SumCharLen(_)
\* The characters of the tokens of s.
SumCharLen(s) == IF Len(s) = 0 THEN 0 ELSE CharLen(Head(s)) + SumCharLen(Tail(s))

\* len(" ".join(tokens))
LineCharLen(ln) == IF Len(ln) = 0 THEN 0 ELSE SumCharLen(ln) + (Len(ln) - 1)

\* A line with a colon at its end dropped: s[:-1] if s.endswith(":"), and
\* rstrip(":") for a line with one colon at most at its end.
DropLastColon(s) ==
  IF Len(s) = 0 THEN s
  ELSE SubSeq(s, 1, Len(s) - 1) \o <<DropColon(s[Len(s)])>>

LineIsUpper(s) ==
  /\ \E i \in 1..Len(s) : CaseOf(s[i]) # "none"
  /\ \A i \in 1..Len(s) : CaseOf(s[i]) \in {"upper", "none"}
LineIsTitle(s) ==
  /\ \E i \in 1..Len(s) : CaseOf(s[i]) # "none"
  /\ \A i \in 1..Len(s) : CaseOf(s[i]) \in {"title", "none"}

\* _looks_like_heading
LooksLikeHeading(line) ==
  IF LineCharLen(line) > 80 \/ LineCharLen(line) < 3 THEN FALSE
  ELSE LET s == DropLastColon(line)
       IN \/ (Len(s) <= 6 /\ (LineIsUpper(s) \/ LineIsTitle(s)))
          \/ LowerSeq(s) \in SECTION_CANON

\* _normalize_heading
NormalizeHeading(h) ==
  IF Len(h) = 0 THEN h
  ELSE IF Len(h) = 1 THEN <<StripEnds(h[1])>>
  ELSE <<StripEnds(h[1])>> \o SubSeq(h, 2, Len(h) - 1) \o <<StripEnds(h[Len(h)])>>

\* h.lower().rstrip(":")
HeadingKey(h) ==
  IF Len(h) = 0 THEN h
  ELSE LowerSeq(SubSeq(h, 1, Len(h) - 1)) \o <<RStripColon(Lower(h[Len(h)]))>>

\* A loop that appends every heading, seen before or not.
DedupHeadings_none(hs, seen) == hs

RECURSIVE DedupHeadings(_, _)
\* Keep the first heading of every key, in order.
DedupHeadings(hs, seen) ==
  IF Len(hs) = 0 THEN <<>>
  ELSE IF HeadingKey(Head(hs)) \in seen THEN DedupHeadings(Tail(hs), seen)
  ELSE <<Head(hs)>> \o DedupHeadings(Tail(hs), seen \cup {HeadingKey(Head(hs))})

RECURSIVE NormalizeAll(_)
\* _normalize_heading of every line of hs
NormalizeAll(hs) ==
  IF Len(hs) = 0 THEN <<>>
  ELSE <<NormalizeHeading(Head(hs))>> \o NormalizeAll(Tail(hs))

\* _detect_section_order
DetectSectionOrder(text) ==
  LET heads == SelectSeq(text, LooksLikeHeading)
      norm == NormalizeAll(heads)
      order == DedupHeadings(norm, {})
      dedup == DedupHeadings(order, {})
  IN SubSeq(dedup, 1, Min(12, Len(dedup)))

\* A loop that looks for every heading and not at where it is.
OrderOkFrom_presentOnly(text_l, hs, pos) ==
  \A i \in 1..Len(hs) : Find(text_l, HeadingKey(NormalizeHeading(hs[i]))) # -1

RECURSIVE OrderOkFrom(_, _, _)
\* The loop of _order_ok: pos is the offset of the previous heading.
OrderOkFrom(text_l, hs, pos) ==
  IF Len(hs) = 0 THEN TRUE
  ELSE LET idx == Find(text_l, HeadingKey(NormalizeHeading(Head(hs))))
       IN IF idx = -1 \/ idx < pos THEN FALSE
          ELSE OrderOkFrom(text_l, Tail(hs), idx)

\* _order_ok
OrderOk(html, section_order) ==
  IF section_order = <<>> THEN TRUE
  ELSE OrderOkFrom(LowerSeq(html), section_order, -1)

\* -------------------------------- _ai_tailor_resume_html (lines 225-406)
\* Every occurrence of token old replaced by the tokens new (str.replace).
RECURSIVE ReplaceTok(_, _, _)
ReplaceTok(s, old, new) ==
  IF Len(s) = 0 THEN <<>>
  ELSE (IF Head(s) = old THEN new ELSE <<Head(s)>>) \o ReplaceTok(Tail(s), old, new)

\* str.replace("<", "&lt;").replace(">", "&gt;") on a string.
EscAngleSeq(s) == [i \in 1..Len(s) |-> EscAngle(s[i])]
\* html.escape() on a string.
HtmlEscapeSeq(s) == [i \in 1..Len(s) |-> HtmlEscape(s[i])]

\* str.strip() of a completion: leading and trailing line breaks dropped.
RECURSIVE LStrip(_)
LStrip(s) == IF Len(s) > 0 /\ Head(s) = NL THEN LStrip(Tail(s)) ELSE s
RECURSIVE RStrip(_)
RStrip(s) ==
  IF Len(s) > 0 /\ s[Len(s)] = NL THEN RStrip(SubSeq(s, 1, Len(s) - 1)) ELSE s
Strip(s) == RStrip(LStrip(s))

\* The css string (lines 268-276), one token per rule.
css ==
  <<"<style>", NL, "body{}", NL, ".card{}", NL, "li{color:#fff}", NL, "</style>", NL>>

\* A SafeResume that forgets the escaping.
SafeResume_raw(resume_text) == Flatten(resume_text)

\* safe_resume (line 231)
SafeResume(resume_text) == EscAngleSeq(Flatten(resume_text))

\* The page returned when no credential is configured (lines 231-249).
FallbackHtml(resume_text, invariants) ==
  LET safe_resume == SafeResume(resume_text)
      links == invariants.links
  IN <<"<!doctype html>", NL, "<html>", "<meta>", NL, "<title>", NL,
       "<style>", NL, "body{}", NL, ".card{}", NL, ".muted{}", NL,
       "li{color:#fff}", NL, "</style>", NL, "<div>", NL, "<h1>">>
     \o (IF invariants.name # <<>> THEN HtmlEscapeSeq(invariants.name)
         ELSE <<"Your", "Name">>)
     \o <<"</h1>", NL, "<div>">>
     \o (IF invariants.email # "" THEN <<HtmlEscape(invariants.email)>> ELSE <<>>)
     \o (IF invariants.phone # "" THEN <<HtmlEscape(invariants.phone)>> ELSE <<>>)
     \o <<"</div>", NL, "<p>">> \o HtmlEscapeSeq(links) \o <<"</p>", NL,
          "<h2>", "Original", "</h2>", NL, "<pre>">>
     \o safe_resume
     \o <<"</pre>", NL, "</div>", NL, "</html>">>

\* What one generation-backend call can do: return a completion, time out,
\* answer with a non-success status, or fail in transport.
\* str(e) of the exception _call_once catches.
ErrorText(b) ==
  CASE b.kind = "timeout"   -> <<"timed", "out">>
    [] b.kind = "status"    -> <<"openai_http_status=500">>
    [] b.kind = "transport" -> <<"<", "urlopen", "error", ">">>
    [] OTHER                -> <<"empty", "completion">>

\* The page _call_once returns from its except branch (lines 366-375).
ErrorPage(b) ==
  <<"<!doctype html>", "<html>", "<head>">> \o css
    \o <<"</head>", "<body>", "<div>", "<h2>", "Tailor", "error", "</h2>", "<p>",
         "OpenAI", "request", "failed", "</p>", "<pre>">>
    \o HtmlEscapeSeq(ErrorText(b))
    \o <<"</pre>", "</div>", "</body>", "</html>">>

\* The post-processing of a completion (lines 377-387).
PostProcess(html0) ==
  LET html1 == IF ~ HasTok(LowerSeq(html0), {"<!doctype html>"})
               THEN <<"<!doctype html>", NL>> \o html0 ELSE html0
  IN IF ~ HasTok(LowerSeq(html1), {"<style>"})
     THEN IF HasTok(html1, {"<head>"})
          THEN ReplaceTok(html1, "<head>", <<"<head>", NL>> \o css)
          ELSE LET body_part == IF ~ HasTok(LowerSeq(html1), {"<html>"})
                                THEN html1 ELSE <<>>
               IN <<"<!doctype html>", "<html>", "<head>">> \o css
                    \o <<"</head>", "<body>">>
                    \o (IF body_part # <<>> THEN body_part ELSE html1)
                    \o <<"</body>", "</html>">>
     ELSE IF ~ HasTok(html1, {"li{color:#fff}"})
          THEN ReplaceTok(html1, "</style>", <<"li{color:#fff}", NL, "</style>">>)
          ELSE html1

\* The call failed: an exception of _http_chat_completion or an empty completion.
CallFailed(b) == b.kind # "ok" \/ Strip(b.text) = <<>>

\* _call_once under backend behaviour b.
CallOnce(b) ==
  IF CallFailed(b) THEN ErrorPage(b) ELSE PostProcess(Strip(b.text))

\* Both checks of lines 393 and 403.
Verified(html, resume_text) ==
  /\ EnsureInvariantsPresent(html, ExtractContactBits(resume_text))
  /\ OrderOk(html, DetectSectionOrder(resume_text))

\* A retry condition that forgets the configured retry count.
RetryWanted_anyCount(max_retries, html, resume_text) == ~ Verified(html, resume_text)

\* The condition of line 393.
RetryWanted(max_retries, html, resume_text) ==
  (max_retries > 0) /\ ~ Verified(html, resume_text)

\* An adoption that takes the retry's output whatever the checks say.
Adopt_always(html, html2, resume_text) == html2

\* The adoption of line 403-404.
Adopt(html, html2, resume_text) ==
  IF Verified(html2, resume_text) THEN html2 ELSE html

\* not api_key
NoKey(api_key) == api_key = ""

\* The whole function under the backend behaviours b1 (first call) and b2
\* (second call, if one is made): the string returned and the calls made.
AiTailorResumeHtml(resume_text, api_key, max_retries, b1, b2) ==
  IF NoKey(api_key)
  THEN [html |-> FallbackHtml(resume_text, ExtractContactBits(resume_text)), calls |-> 0]
  ELSE LET html == CallOnce(b1)
       IN IF RetryWanted(max_retries, html, resume_text)
          THEN [html |-> Adopt(html, CallOnce(b2), resume_text), calls |-> 2]
          ELSE [html |-> html, calls |-> 1]

\* ---------------------------------------------------------------- inputs
LineVocab ==
  { <<>>, <<"Jane">>, <<"EXPERIENCE">>, <<"Education:">>, <<"j@x.io">>,
    <<"<", "worked", ">">> }

SeqsUpTo(S, n) == UNION {[1..k -> S] : k \in 0..n}

ResumeTexts == SeqsUpTo(LineVocab, MaxLines)

RespVocab == {"JANE", "experience", "Education", "j@x.io", NL}

Behaviours ==
  {[kind |-> "ok", text |-> t] : t \in SeqsUpTo(RespVocab, MaxRespLen)}
    \cup {[kind |-> k, text |-> <<>>] : k \in {"timeout", "status", "transport"}}

ApiKeys == {"", "sk"}
RetryValues == (-1)..MaxRetriesCfg

\* ------------------------------------------- one call of the function

TInit ==
  /\ t_pc = "idle"
  /\ t_resume = <<>>
  /\ t_key = ""
  /\ t_retries = 0
  /\ t_html = <<>>
  /\ t_first = <<>>
  /\ t_second = <<>>
  /\ t_prompts = <<>>
  /\ t_ret = <<>>

\* The call, with its arguments and the configuration it runs under.
TCall(resume_text, api_key, max_retries) ==
  /\ t_pc = "idle"
  /\ t_pc' = "called"
  /\ t_resume' = resume_text
  /\ t_key' = api_key
  /\ t_retries' = max_retries
  /\ UNCHANGED <<t_html, t_first, t_second, t_prompts, t_ret>>
  /\ UNCHANGED <<svars, rvars, dvars>>

\* Lines 230-249.
TFallback ==
  /\ t_pc = "called"
  /\ NoKey(t_key)
  /\ t_ret' = FallbackHtml(t_resume, ExtractContactBits(t_resume))
  /\ t_pc' = "returned"
  /\ UNCHANGED <<t_resume, t_key, t_retries, t_html, t_first, t_second, t_prompts>>
  /\ UNCHANGED <<svars, rvars, dvars>>

\* Line 390.
TAttempt1(b) ==
  /\ t_pc = "called"
  /\ ~ NoKey(t_key)
  /\ t_html' = CallOnce(b)
  /\ t_first' = CallOnce(b)
  /\ t_prompts' = Append(t_prompts, "user")
  /\ t_pc' = "attempt1"
  /\ UNCHANGED <<t_resume, t_key, t_retries, t_second, t_ret>>
  /\ UNCHANGED <<svars, rvars, dvars>>

\* Lines 393-406, the retry taken.
TRetry(b) ==
  /\ t_pc = "attempt1"
  /\ RetryWanted(t_retries, t_html, t_resume)
  /\ t_second' = CallOnce(b)
  /\ t_prompts' = Append(t_prompts, "retry_user")
  /\ t_html' = Adopt(t_html, CallOnce(b), t_resume)
  /\ t_ret' = Adopt(t_html, CallOnce(b), t_resume)
  /\ t_pc' = "returned"
  /\ UNCHANGED <<t_resume, t_key, t_retries, t_first>>
  /\ UNCHANGED <<svars, rvars, dvars>>

\* Lines 393 and 406, the retry not taken.
TReturnFirst ==
  /\ t_pc = "attempt1"
  /\ ~ RetryWanted(t_retries, t_html, t_resume)
  /\ t_ret' = t_html
  /\ t_pc' = "returned"
  /\ UNCHANGED <<t_resume, t_key, t_retries, t_html, t_first, t_second, t_prompts>>
  /\ UNCHANGED <<svars, rvars, dvars>>

TNext ==
  \/ \E r \in ResumeTexts, k \in ApiKeys, m \in RetryValues : TCall(r, k, m)
  \/ TFallback
  \/ \E b \in Behaviours : TAttempt1(b)
  \/ \E b \in Behaviours : TRetry(b)
  \/ TReturnFirst


\* =========================================================== the stores
\* More bounds: the document ids handed out in Spec, the clock's last second.
MaxDocId == 2
MaxClock == 1

MAX_DOCS_PER_USER == 10


NoKeyGiven == <<>>

\* (body.get("userId") or "demo").strip()
UserIdOf(u) ==
  CASE u = ""  -> "demo"
    [] u = " " -> ""
    [] OTHER   -> u

\* _ext(filename)
Ext(filename) ==
  CASE filename = "cv.txt" -> "txt"
    [] filename = "x.exe"  -> "exe"
    [] OTHER               -> ""

ALLOWED_EXTS == {"pdf", "doc", "docx", "txt"}

\* mimetypes.guess_type(filename)[0] or "application/octet-stream"
ContentTypeOf(filename) ==
  CASE filename = "cv.txt" -> "text/plain"
    [] OTHER               -> "application/octet-stream"

\* _basename(key).rsplit(".", 1)[0] of an uploaded file's name
BaseOfFilename(filename) ==
  CASE filename = "cv.txt" -> "cv"
    [] OTHER               -> filename

\* key = f"resumes/{user_id}/{filename}"
OriginalKey(user_id, filename) == <<"resumes", user_id, filename>>

IsTailoredKey(key) == Len(key) > 3 /\ key[3] = "tailored"

\* base = _basename(src_key).rsplit(".", 1)[0]: of resumes/u/cv.txt it is cv, of
\* resumes/u/tailored/cv__tailored_5.html it is cv__tailored_5.
BaseOfKey(key) ==
  IF IsTailoredKey(key) THEN SubSeq(key, 4, Len(key))
  ELSE <<BaseOfFilename(key[Len(key)])>>

\* html_key = f"resumes/{user_id}/tailored/{base}__tailored_{now}.html"
TailoredKey(user_id, src_key, now) ==
  <<"resumes", user_id, "tailored">> \o BaseOfKey(src_key) \o <<now>>

\* The owner whose prefix resumes/{owner}/ a key lies under.
KeyOwner(key) == key[2]

\* How a store operation fails: a ClientError with code ValidationException
\* ("validation"), with code AccessDenied or NoSuchKey ("denied"), with another
\* code ("client"), or an exception that is no ClientError ("other").
Kinds == {"validation", "denied", "client", "other"}
IsClientError(kind) == kind # "other"

\* The store operation env.fail fails in this request, if it is reached.
Fails(env, op) == env.fail = op

NoFailure == [fail |-> "none", kind |-> "client"]

\* A count that leaves the tailored documents out.
CountDocsForUser_originals(table, user_id, env) ==
  IF Fails(env, "count") /\ env.kind # "validation"
  THEN [ok |-> FALSE, n |-> 0]
  ELSE [ok |-> TRUE,
        n |-> Cardinality({d \in table : d.userId = user_id /\ d.type = "resume_original"})]

\* _count_docs_for_user: the count, or ok = FALSE when it raises.  A
\* ValidationException of the query is answered by counting with a scan.
CountDocsForUser(table, user_id, env) ==
  IF Fails(env, "count") /\ env.kind # "validation"
  THEN [ok |-> FALSE, n |-> 0]
  ELSE [ok |-> TRUE, n |-> Cardinality({d \in table : d.userId = user_id})]

\* A quota check that lets the owner reach one document more.
QuotaReached_offByOne(table, user_id, env) ==
  LET c == CountDocsForUser(table, user_id, env)
  IN c.ok /\ c.n > MAX_DOCS_PER_USER

\* try: if _count_docs_for_user(user_id) >= MAX_DOCS_PER_USER: return 429
\* except Exception: pass
QuotaReached(table, user_id, env) ==
  LET c == CountDocsForUser(table, user_id, env)
  IN c.ok /\ c.n >= MAX_DOCS_PER_USER

\* s3.put_object
PutObject(bucket, key, body, content_type) ==
  [k \in DOMAIN bucket \cup {key} |->
     IF k = key THEN [body |-> body, contentType |-> content_type] ELSE bucket[k]]

\* s3.delete_object
DeleteObject(bucket, key) == [k \in DOMAIN bucket \ {key} |-> bucket[k]]

\* A put_item that refuses the item once the owner holds MAX_DOCS_PER_USER.
PutItem_conditional(table, item) ==
  IF Cardinality({d \in table : d.userId = item.userId}) >= MAX_DOCS_PER_USER
  THEN table
  ELSE {d \in table : ~ (d.userId = item.userId /\ d.documentId = item.documentId)}
         \cup {item}

\* DOCS_TABLE.put_item: the item replaces the one of its key.
PutItem(table, item) ==
  {d \in table : ~ (d.userId = item.userId /\ d.documentId = item.documentId)}
    \cup {item}

\* A delete_item that takes the documents tailored from the item with it.
DeleteItem_cascade(table, user_id, document_id) ==
  {d \in table : ~ (d.userId = user_id /\
                    (d.documentId = document_id \/ d.sourceDocumentId = document_id))}

\* DOCS_TABLE.delete_item
DeleteItem(table, user_id, document_id) ==
  {d \in table : ~ (d.userId = user_id /\ d.documentId = document_id)}

\* DOCS_TABLE.get_item: the set of the items found (one at most).
GetItem(table, user_id, document_id) ==
  {d \in table : d.userId = user_id /\ d.documentId = document_id}

\* A scan whose filter leaves the owner out.
ScanOne_anyOwner(table, user_id, document_id, first) ==
  {d \in table \cap {first} : d.documentId = document_id}

\* DOCS_TABLE.scan(Limit=1, FilterExpression=userId & documentId): the filter is
\* applied to the one item the scan reads, which is item first.
ScanOne(table, user_id, document_id, first) ==
  {d \in table \cap {first} : d.userId = user_id /\ d.documentId = document_id}

\* The items a Limit=1 scan may read first: any item of the table.
ScanFirsts(table) == IF table = {} THEN {[userId |-> "", documentId |-> 0]} ELSE table

\* The item written at lines 556-564.
OriginalItem(user_id, doc_id, key, content_type, size, now) ==
  [userId |-> user_id, documentId |-> doc_id, type |-> "resume_original",
   s3Key |-> key, contentType |-> content_type, size |-> size, createdAt |-> now,
   sourceDocumentId |-> 0, jobUrl |-> "", interests |-> ""]

\* The item written at lines 755-766.
TailoredItem(user_id, doc_id, key, size, source_doc_id, job_url, interests, now) ==
  [userId |-> user_id, documentId |-> doc_id, type |-> "resume_tailored",
   s3Key |-> key, contentType |-> "text/html", size |-> size, createdAt |-> now,
   sourceDocumentId |-> source_doc_id, jobUrl |-> job_url, interests |-> interests]

\* _find_doc_by_id: the items found, or raised = TRUE.  A ClientError of
\* get_item is passed over (absorbed) and the scan decides; any other exception
\* of get_item and every exception of the scan leave the function.
FindDocById(table, user_id, document_id, env, first) ==
  LET got == GetItem(table, user_id, document_id)
      scanned(absorbed) ==
        IF Fails(env, "scan")
        THEN [raised |-> TRUE, items |-> {}, hit |-> "scan", absorbed |-> absorbed]
        ELSE [raised |-> FALSE, hit |-> "none", absorbed |-> absorbed,
              items |-> ScanOne(table, user_id, document_id, first)]
  IN IF Fails(env, "get_item")
     THEN IF IsClientError(env.kind) THEN scanned({"lookup"})
          ELSE [raised |-> TRUE, items |-> {}, hit |-> "get_item", absorbed |-> {}]
     ELSE IF got # {} THEN [raised |-> FALSE, items |-> got, hit |-> "none", absorbed |-> {}]
     ELSE scanned({})

\* The status of a request whose handler let an exception out: lambda_handler
\* has no try/except around the handlers, so no response is made.
Raised == 0

\* The request being answered and its response.  hit: the store operation
\* whose failure ended the request; soft: the failures the handler passed over.
Last(op, user, doc, status, hit, soft) ==
  [op |-> op, user |-> user, doc |-> doc, key |-> NoKeyGiven, status |-> status,
   hit |-> hit, soft |-> soft]

\* No request is being answered.
NoResponse == Last("none", "", 0, 0, "none", {})
Idle == last = NoResponse

\* lambda_handler returns the response of the handler; the next event is
\* handled after it.
Return ==
  /\ ~ Idle
  /\ last' = NoResponse
  /\ UNCHANGED <<docs, blobs, apps, clock, nextId>>
  /\ UNCHANGED <<tvars, rvars, dvars>>

\* except Exception: pass, around the quota count
CountSoft(table, user_id, env) ==
  IF CountDocsForUser(table, user_id, env).ok THEN {} ELSE {"count"}

\* ------------------------------------- handle_upload_resume (520-573)
\* The outcome of an upload: the status, the stores after it, the store
\* operation that ended it, the failures passed over, and whether an item was
\* written.
UploadOutcome(table, bucket, req, env, doc_id, now) ==
  LET user_id == UserIdOf(req.userId)
      filename == req.filename
      key == OriginalKey(user_id, filename)
      content_type == ContentTypeOf(filename)
      soft0 == CountSoft(table, user_id, env)
      same(status, hit, soft) ==
        [status |-> status, docs |-> table, blobs |-> bucket, hit |-> hit,
         soft |-> soft, created |-> FALSE]
      written == PutObject(bucket, key, req.content.data, content_type)
  IN IF user_id = "" \/ filename = "" \/ req.content.enc = "missing"
       THEN same(400, "none", {})
     ELSE IF Ext(filename) \notin ALLOWED_EXTS THEN same(415, "none", {})
     ELSE IF QuotaReached(table, user_id, env) THEN same(429, "none", {})
     ELSE IF req.content.enc = "invalid" THEN same(400, "none", soft0)
     ELSE IF req.content.big THEN same(413, "none", soft0)
     ELSE IF Fails(env, "put_object")
       THEN same(IF IsClientError(env.kind) THEN 500 ELSE Raised, "put_object", soft0)
     ELSE IF Fails(env, "put_item")
       THEN [status |-> Raised, docs |-> table, blobs |-> written,
             hit |-> "put_item", soft |-> soft0, created |-> FALSE]
     ELSE [status |-> 200,
           docs |-> PutItem(table, OriginalItem(user_id, doc_id, key, content_type,
                                                Len(req.content.data), now)),
           blobs |-> written, hit |-> "none", soft |-> soft0, created |-> TRUE]

Upload(req, env) ==
  LET o == UploadOutcome(docs, blobs, req, env, nextId, clock)
  IN /\ Idle
     /\ docs' = o.docs
     /\ blobs' = o.blobs
     /\ nextId' = IF o.created THEN nextId + 1 ELSE nextId
     /\ last' = Last("upload", UserIdOf(req.userId), 0, o.status, o.hit, o.soft)
     /\ UNCHANGED <<apps, clock>>
     /\ UNCHANGED <<tvars, rvars, dvars>>

\* --------------------------------------------- handle_tailor (679-781)
OPENAI_MAX_RETRIES_DEFAULT == 1

RECURSIVE SplitLines(_)
\* str.splitlines() of a string
SplitLines(flat) ==
  IF Len(flat) = 0 THEN <<>>
  ELSE LET brk == {i \in 1..Len(flat) : flat[i] = NL}
       IN IF brk = {} THEN <<flat>>
          ELSE LET i == CHOOSE k \in brk : \A m \in brk : k <= m
               IN <<SubSeq(flat, 1, i - 1)>> \o SplitLines(SubSeq(flat, i + 1, Len(flat)))

\* data.startswith(b"%PDF")
StartsWithPdfMagic(data) == Len(data) > 0 /\ data[1] = "%PDF"

\* _extract_pdf_text: the text of the pages, or a placeholder when the parser
\* raises or finds no text.
ExtractPdfText(data, soft) ==
  IF "extract" \in soft THEN <<"[Could not extract PDF text]">>
  ELSE LET text == IF StartsWithPdfMagic(data) THEN Tail(data) ELSE data
       IN IF Strip(text) = <<>> THEN <<"[PDF had no extractable text]">> ELSE Strip(text)

\* s3.get_object of the source raises: it is made to fail or the key is gone.
ReadFails(bucket, src_key, env) == Fails(env, "get_object") \/ src_key \notin DOMAIN bucket

\* The source goes through the PDF parser.
IsPdf(bucket, src_key, src_ct) ==
  src_ct = "application/pdf" \/ StartsWithPdfMagic(bucket[src_key].body)

\* resume_text of lines 710-723, as one string.
ResumeTextOf(bucket, src_key, src_ct, env, soft) ==
  IF ReadFails(bucket, src_key, env)
  THEN <<"[Could not fetch original resume bytes]">>
  ELSE LET data == bucket[src_key].body
       IN IF IsPdf(bucket, src_key, src_ct) THEN ExtractPdfText(data, soft)
          ELSE IF src_ct \in {"text/plain", "text/html", "application/json", "application/xml"}
            THEN data
          ELSE <<"[Original content-type not parsed]">>

\* Whether every generation call of the request failed.
GenFailed(gen) == ~ NoKey(gen.api_key) /\ CallFailed(gen.b1) /\ CallFailed(gen.b2)

\* The content steps that failed in a tailor that got as far as them: each is
\* turned into a placeholder text or an error page.
ContentSoft(bucket, src_key, src_ct, env, soft, gen) ==
  (IF ReadFails(bucket, src_key, env) THEN {"read"}
   ELSE IF IsPdf(bucket, src_key, src_ct) THEN soft \cap {"extract"} ELSE {})
    \cup (soft \cap {"fetch"})
    \cup (IF GenFailed(gen) THEN {"gen"} ELSE {})

\* A tailor that answers 500 when a content step failed.
TailorStatus_strict(sft) ==
  IF sft \cap {"read", "extract", "fetch", "gen"} = {} THEN 200 ELSE 500

\* return _response(200, ...) at the end of handle_tailor, whatever was passed
\* over on the way.
TailorStatus(sft) == 200

\* The outcome of a tailor request.  soft: the content steps that fail
\* ("extract": the PDF parser, "fetch": the job page); gen: the credential and
\* what the generation backend does; first: the item a Limit=1 scan reads.
TailorOutcome(table, bucket, req, env, soft, gen, first, doc_id, now) ==
  LET user_id == UserIdOf(req.userId)
      source_doc_id == req.documentId
      same(status, hit, sft) ==
        [status |-> status, docs |-> table, blobs |-> bucket, hit |-> hit,
         created |-> FALSE, soft |-> sft]
      found == FindDocById(table, user_id, source_doc_id, env, first)
      soft0 == CountSoft(table, user_id, env) \cup found.absorbed
  IN IF user_id = "" \/ source_doc_id = 0 \/ req.jobUrl = "" THEN same(400, "none", {})
     ELSE IF QuotaReached(table, user_id, env) THEN same(429, "none", {})
     ELSE IF found.raised THEN same(Raised, found.hit, soft0)
     ELSE IF found.items = {} THEN same(404, "none", soft0)
     ELSE LET item == CHOOSE d \in found.items : TRUE
              src_key == item.s3Key
              resume_text == ResumeTextOf(bucket, src_key, item.contentType, env, soft)
              html == AiTailorResumeHtml(SplitLines(resume_text), gen.api_key,
                                         OPENAI_MAX_RETRIES_DEFAULT, gen.b1, gen.b2).html
              html_key == TailoredKey(user_id, src_key, now)
              sft == soft0 \cup ContentSoft(bucket, src_key, item.contentType, env, soft, gen)
              written == PutObject(bucket, html_key, html, "text/html; charset=utf-8")
          IN IF src_key = NoKeyGiven THEN same(400, "none", soft0)
             ELSE IF Fails(env, "put_object")
               THEN same(IF IsClientError(env.kind) THEN 500 ELSE Raised, "put_object", sft)
             ELSE IF Fails(env, "put_item")
               THEN [status |-> Raised, docs |-> table, blobs |-> written,
                     hit |-> "put_item", created |-> FALSE, soft |-> sft]
             ELSE [status |-> TailorStatus(sft),
                   docs |-> PutItem(table, TailoredItem(user_id, doc_id, html_key, Len(html),
                                                        source_doc_id, req.jobUrl,
                                                        req.interests, now)),
                   blobs |-> written, hit |-> "none", created |-> TRUE, soft |-> sft]

Tailor(req, env, soft, gen, first) ==
  LET o == TailorOutcome(docs, blobs, req, env, soft, gen, first, nextId, clock)
  IN /\ Idle
     /\ docs' = o.docs
     /\ blobs' = o.blobs
     /\ nextId' = IF o.created THEN nextId + 1 ELSE nextId
     /\ last' = Last("tailor", UserIdOf(req.userId), req.documentId, o.status, o.hit, o.soft)
     /\ UNCHANGED <<apps, clock>>
     /\ UNCHANGED <<tvars, rvars, dvars>>

\* ------------------------------------ handle_delete_document (615-677)
\* The lookup of lines 634-650: the items found, or the status it ends with.
DeleteLookup(table, user_id, document_id, env, first) ==
  LET got == GetItem(table, user_id, document_id)
      failed(op) == [done |-> TRUE, hit |-> op, items |-> {},
                     status |-> IF IsClientError(env.kind) THEN 500 ELSE Raised]
  IN IF Fails(env, "get_item") THEN failed("get_item")
     ELSE IF got # {} THEN [done |-> FALSE, hit |-> "none", items |-> got, status |-> 0]
     ELSE IF Fails(env, "scan") THEN failed("scan")
     ELSE [done |-> FALSE, hit |-> "none", status |-> 0,
           items |-> ScanOne(table, user_id, document_id, first)]

DeleteOutcome(table, bucket, req, env, first) ==
  LET user_id == UserIdOf(req.userId)
      document_id == req.documentId
      same(status, hit) ==
        [status |-> status, docs |-> table, blobs |-> bucket, hit |-> hit, soft |-> {}]
      look == IF req.s3Key = NoKeyGiven
              THEN DeleteLookup(table, user_id, document_id, env, first)
              ELSE [done |-> FALSE, hit |-> "none", items |-> {}, status |-> 0]
      explicit_key == IF req.s3Key # NoKeyGiven THEN req.s3Key
                      ELSE IF look.items # {} THEN (CHOOSE d \in look.items : TRUE).s3Key
                      ELSE NoKeyGiven
      s3_failed == explicit_key # NoKeyGiven /\ Fails(env, "delete_object")
      bucket1 == IF explicit_key # NoKeyGiven /\ ~ s3_failed
                 THEN DeleteObject(bucket, explicit_key) ELSE bucket
      soft1 == IF s3_failed THEN {"denied"} ELSE {}
      target == IF look.items # {}
                THEN LET item == CHOOSE d \in look.items : TRUE
                     IN <<item.userId, item.documentId>>
                ELSE <<user_id, document_id>>
      deletes == look.items # {} \/ document_id # 0
  IN IF user_id = "" \/ (document_id = 0 /\ req.s3Key = NoKeyGiven) THEN same(400, "none")
     ELSE IF look.done THEN same(look.status, look.hit)
     ELSE IF req.s3Key = NoKeyGiven /\ look.items = {} THEN same(200, "none")
     ELSE IF s3_failed /\ env.kind # "denied"
       THEN same(IF IsClientError(env.kind) THEN 500 ELSE Raised, "delete_object")
     ELSE IF deletes /\ Fails(env, "delete_item")
       THEN [status |-> IF IsClientError(env.kind) THEN 500 ELSE Raised,
             docs |-> table, blobs |-> bucket1, hit |-> "delete_item", soft |-> soft1]
     ELSE [status |-> 200,
           docs |-> IF deletes THEN DeleteItem(table, target[1], target[2]) ELSE table,
           blobs |-> bucket1, hit |-> "none", soft |-> soft1]

Delete(req, env, first) ==
  LET o == DeleteOutcome(docs, blobs, req, env, first)
  IN /\ Idle
     /\ docs' = o.docs
     /\ blobs' = o.blobs
     /\ last' = [Last("delete", UserIdOf(req.userId), req.documentId, o.status, o.hit,
                      o.soft) EXCEPT !.key = req.s3Key]
     /\ UNCHANGED <<apps, clock, nextId>>
     /\ UNCHANGED <<tvars, rvars, dvars>>

\* -------------------------------------- handle_list_documents (586-613)
\* A ValidationException of the query is answered by a scan.
ListStatus(env) ==
  IF Fails(env, "query") /\ env.kind # "validation"
  THEN IF IsClientError(env.kind) THEN 500 ELSE Raised
  ELSE 200

List(req, env) ==
  /\ Idle
  /\ last' = Last("list", UserIdOf(req.userId), 0, ListStatus(env),
                  IF ListStatus(env) = 200 THEN "none" ELSE "query", {})
  /\ UNCHANGED <<docs, blobs, apps, clock, nextId>>
  /\ UNCHANGED <<tvars, rvars, dvars>>

\* ------------------------------------ handle_get_document_html (435-466)
GetHtmlOutcome(table, bucket, req, env, first) ==
  LET user_id == UserIdOf(req.userId)
      found == FindDocById(table, user_id, req.documentId, env, first)
      out(status, hit) == [status |-> status, hit |-> hit, soft |-> found.absorbed]
  IN IF user_id = "" \/ req.documentId = 0 THEN [status |-> 400, hit |-> "none", soft |-> {}]
     ELSE IF found.raised THEN out(Raised, found.hit)
     ELSE IF found.items = {} THEN out(404, "none")
     ELSE LET item == CHOOSE d \in found.items : TRUE
          IN IF item.contentType # "text/html" THEN out(415, "none")
             ELSE IF item.s3Key = NoKeyGiven THEN out(500, "none")
             ELSE IF Fails(env, "get_object") \/ item.s3Key \notin DOMAIN bucket
               THEN out(500, "get_object")
             ELSE out(200, "none")

GetHtml(req, env, first) ==
  LET o == GetHtmlOutcome(docs, blobs, req, env, first)
  IN /\ Idle
     /\ last' = Last("html", UserIdOf(req.userId), req.documentId, o.status, o.hit, o.soft)
     /\ UNCHANGED <<docs, blobs, apps, clock, nextId>>
     /\ UNCHANGED <<tvars, rvars, dvars>>

\* ----------------------------------- handle_create_application (575-584)
CreateApplication(req, env) ==
  LET item == [userId |-> UserIdOf(req.userId), jobId |-> req.jobId, score |-> 0,
               status |-> "CREATED", createdAt |-> clock]
  IN /\ Idle
     /\ apps' = IF Fails(env, "put_item") THEN apps
                ELSE {a \in apps : ~ (a.userId = item.userId /\ a.jobId = item.jobId)}
                       \cup {item}
     /\ last' = Last("application", item.userId, 0,
                     IF Fails(env, "put_item") THEN Raised ELSE 200,
                     IF Fails(env, "put_item") THEN "put_item" ELSE "none", {})
     /\ UNCHANGED <<docs, blobs, clock, nextId>>
     /\ UNCHANGED <<tvars, rvars, dvars>>

\* time.time() moves on.
Tick(maxClock) ==
  /\ clock < maxClock
  /\ Idle
  /\ clock' = clock + 1
  /\ UNCHANGED <<docs, blobs, apps, nextId, last>>
  /\ UNCHANGED <<tvars, rvars, dvars>>

\* --------------------------------------------------------------- inputs
Bodies == {<<"Jane">>, <<"%PDF", "j@x.io">>}
UploadContents ==
  {[enc |-> "ok", big |-> FALSE, data |-> b] : b \in Bodies}
    \cup {[enc |-> "missing", big |-> FALSE, data |-> <<>>],
          [enc |-> "invalid", big |-> FALSE, data |-> <<>>],
          [enc |-> "ok", big |-> TRUE, data |-> <<>>]}
\* Uploads of cv.txt by the owners, and one upload each with a blank owner and
\* with an extension that is not allowed.
UploadRequests(users) ==
  [userId : users, filename : {"cv.txt"}, content : UploadContents]
    \cup [userId : {" "}, filename : {"cv.txt"}, content : {c \in UploadContents : c.big}]
    \cup [userId : {""}, filename : {"x.exe"}, content : {c \in UploadContents : c.big}]

\* The ways each store operation is made to fail.
KindsOf(op) ==
  CASE op \in {"count", "query"}            -> {"validation", "client"}
    [] op \in {"get_item", "put_object"}    -> {"client", "other"}
    [] op = "delete_object"                 -> {"denied", "client", "other"}
    [] OTHER                                -> {"client"}
\* At most one store operation of a request fails.
Envs(ops) ==
  {NoFailure} \cup {e \in [fail : ops, kind : Kinds] : e.kind \in KindsOf(e.fail)}

Timeout == [kind |-> "timeout", text |-> <<>>]
\* Tailor requests for the documents of the owners, and one without its fields.
TailorRequests(users) ==
  [userId : users, documentId : 1..MaxDocId, jobUrl : {"http://job"}, interests : {"ml"}]
    \cup {[userId |-> "", documentId |-> 0, jobUrl |-> "", interests |-> ""]}
SoftCases == SUBSET {"extract", "fetch"}
GenCases ==
  {[api_key |-> "", b1 |-> Timeout, b2 |-> Timeout],
   [api_key |-> "sk", b1 |-> [kind |-> "ok", text |-> <<"JANE">>], b2 |-> Timeout],
   [api_key |-> "sk", b1 |-> Timeout, b2 |-> Timeout]}
NoContent == [soft |-> {}, gen |-> CHOOSE g \in GenCases : NoKey(g.api_key)]
\* The content steps are drawn for the requests that reach them.
ContentCases(req, env, first) ==
  LET user_id == UserIdOf(req.userId)
      found == FindDocById(docs, user_id, req.documentId, env, first)
  IN IF req.documentId = 0 \/ QuotaReached(docs, user_id, env) \/ found.raised
        \/ found.items = {} \/ Fails(env, "put_object")
     THEN {NoContent}
     ELSE [soft : SoftCases, gen : GenCases]
\* The item a Limit=1 scan reads first is drawn for the requests that scan.
Firsts(user_id, document_id, env) ==
  IF document_id = 0 \/ Fails(env, "scan")
     \/ (~ Fails(env, "get_item") /\ GetItem(docs, user_id, document_id) # {})
  THEN {CHOOSE f \in ScanFirsts(docs) : TRUE}
  ELSE ScanFirsts(docs)
\* The keys a delete request may name: none, a key stored, a key not stored.
ExplicitKeys == {NoKeyGiven, <<"resumes", "bob", "gone.txt">>} \cup DOMAIN blobs
DeleteRequests(users) ==
  [userId : users, documentId : 1..MaxDocId, s3Key : {NoKeyGiven} \cup DOMAIN blobs]
    \cup [userId : users, documentId : {0}, s3Key : ExplicitKeys]
ReadRequests(users) == [userId : users, documentId : 0..MaxDocId]
ListRequests(users) == [userId : users]
ApplicationRequests == [userId : {""}, jobId : {"j1"}]

SInit ==
  /\ docs = {}
  /\ blobs = << >>
  /\ apps = {}
  /\ clock = 0
  /\ nextId = 1
  /\ last = NoResponse

\* ------------------------------------------- requests with store failures
\* One owner sends requests one after another; in each, one store operation may
\* fail and the content steps of a tailor may fail.
FailUsers == {""}
FailNext ==
  \/ \E req \in UploadRequests(FailUsers), env \in Envs({"count", "put_object", "put_item"}) :
       nextId <= MaxDocId /\ Upload(req, env)
  \/ \E req \in TailorRequests(FailUsers),
        env \in Envs({"count", "get_item", "scan", "get_object", "put_object", "put_item"}) :
       \E first \in Firsts(UserIdOf(req.userId), req.documentId, env) :
         \E c \in ContentCases(req, env, first) :
           nextId <= MaxDocId /\ Tailor(req, env, c.soft, c.gen, first)
  \/ \E req \in DeleteRequests(FailUsers),
        env \in Envs({"get_item", "scan", "delete_object", "delete_item"}) :
       \E first \in Firsts(UserIdOf(req.userId), req.documentId, env) :
         Delete(req, env, first)
  \/ \E req \in ListRequests(FailUsers), env \in Envs({"query"}) : List(req, env)
  \/ \E req \in ReadRequests(FailUsers), env \in Envs({"get_item", "scan", "get_object"}) :
       \E first \in Firsts(UserIdOf(req.userId), req.documentId, env) :
         GetHtml(req, env, first)
  \/ \E req \in ApplicationRequests, env \in Envs({"put_item"}) :
       CreateApplication(req, env)
  \/ Return

\* ------------------------------------------ requests of two owners in time
StoreUsers == {"", "bob"}
StoreNext ==
  \/ \E req \in UploadRequests(StoreUsers) : nextId <= MaxDocId /\ Upload(req, NoFailure)
  \/ \E req \in TailorRequests(StoreUsers) :
       \E first \in Firsts(UserIdOf(req.userId), req.documentId, NoFailure) :
         nextId <= MaxDocId /\ Tailor(req, NoFailure, NoContent.soft, NoContent.gen, first)
  \/ \E req \in DeleteRequests(StoreUsers) :
       \E first \in Firsts(UserIdOf(req.userId), req.documentId, NoFailure) :
         Delete(req, NoFailure, first)
  \/ \E req \in ListRequests({""}) : List(req, NoFailure)
  \/ \E req \in ReadRequests({""}) :
       \E first \in Firsts(UserIdOf(req.userId), req.documentId, NoFailure) :
         GetHtml(req, NoFailure, first)
  \/ \E req \in ApplicationRequests : CreateApplication(req, NoFailure)
  \/ Tick(MaxClock)
  \/ Return

\* ------------------------------------------------ an owner at the quota
\* Documents made before QInit: uploads of cv.txt by demo.
QuotaBefore == MAX_DOCS_PER_USER - 1
\* Documents made after it.
QuotaNewDocs == 3
QuotaBody == <<"Jane">>
QInit ==
  /\ docs = {OriginalItem("demo", i, OriginalKey("demo", "cv.txt"), ContentTypeOf("cv.txt"),
                          Len(QuotaBody), 0) : i \in 1..QuotaBefore}
  /\ blobs = PutObject(<< >>, OriginalKey("demo", "cv.txt"), QuotaBody, ContentTypeOf("cv.txt"))
  /\ apps = {}
  /\ clock = 0
  /\ nextId = QuotaBefore + 1
  /\ last = NoResponse

QuotaUploads ==
  [userId : {"", "bob"}, filename : {"cv.txt"},
   content : {[enc |-> "ok", big |-> FALSE, data |-> QuotaBody]}]
QuotaTailors ==
  [userId : {""}, documentId : {1, QuotaBefore + 1}, jobUrl : {"http://job"},
   interests : {"ml"}]
QuotaDeletes == [userId : {""}, documentId : {1, QuotaBefore + 1}, s3Key : {NoKeyGiven}]
QuotaRoom == nextId <= QuotaBefore + QuotaNewDocs

\* The owner's requests one after another; envs: how the count may fail.
QuotaRequests(envs) ==
  \/ \E req \in QuotaUploads, env \in envs : QuotaRoom /\ Upload(req, env)
  \/ \E req \in QuotaTailors, env \in envs :
       \E first \in Firsts(UserIdOf(req.userId), req.documentId, env) :
         QuotaRoom /\ Tailor(req, env, NoContent.soft, NoContent.gen, first)
  \/ \E req \in QuotaDeletes :
       \E first \in Firsts(UserIdOf(req.userId), req.documentId, NoFailure) :
         Delete(req, NoFailure, first)
  \/ Return

\* The count may fail in any way.
QuotaNext == QuotaRequests(Envs({"count"}))
\* The count is always obtained, by the query or by the scan that stands in
\* for it.
CountedNext == QuotaRequests({NoFailure, [fail |-> "count", kind |-> "validation"]})

\* ------------------------------------------------- interleaved requests
Slots == {1, 2}
RaceUser == "demo"
RaceSource == 1
NoRequest == [pc |-> "idle", kind |-> "none", seen |-> 0, id |-> 0]
RInit == reqs = [p \in Slots |-> NoRequest]

\* The quota check of lines 531-535 and 695-699.
RCheck(p, kind) ==
  LET c == CountDocsForUser(docs, RaceUser, NoFailure)
  IN /\ reqs[p].pc = "idle"
     /\ nextId <= QuotaBefore + QuotaNewDocs
     /\ reqs' = [reqs EXCEPT ![p] =
                   [pc |-> IF QuotaReached(docs, RaceUser, NoFailure) THEN "rejected"
                           ELSE "checked",
                    kind |-> kind, seen |-> c.n, id |-> 0]]
     /\ UNCHANGED <<svars, tvars, dvars>>

\* The key and the body a request stores: lines 545-550 and 701-746.
RaceBlob(kind) ==
  IF kind = "upload"
  THEN [key |-> OriginalKey(RaceUser, "cv.txt"), body |-> QuotaBody,
        contentType |-> ContentTypeOf("cv.txt")]
  ELSE LET found == FindDocById(docs, RaceUser, RaceSource, NoFailure,
                                CHOOSE f \in ScanFirsts(docs) : TRUE)
           item == CHOOSE d \in found.items : TRUE
           text == ResumeTextOf(blobs, item.s3Key, item.contentType, NoFailure, {})
       IN [key |-> TailoredKey(RaceUser, item.s3Key, clock),
           body |-> AiTailorResumeHtml(SplitLines(text), NoContent.gen.api_key,
                                       OPENAI_MAX_RETRIES_DEFAULT, NoContent.gen.b1,
                                       NoContent.gen.b2).html,
           contentType |-> "text/html; charset=utf-8"]

\* s3.put_object of lines 548-552 and 739-751, then doc_id = str(uuid.uuid4()).
RPutObject(p) ==
  LET b == RaceBlob(reqs[p].kind)
  IN /\ reqs[p].pc = "checked"
     /\ blobs' = PutObject(blobs, b.key, b.body, b.contentType)
     /\ nextId' = nextId + 1
     /\ reqs' = [reqs EXCEPT ![p].pc = "stored", ![p].id = nextId]
     /\ UNCHANGED <<docs, apps, clock, last>>
     /\ UNCHANGED <<tvars, dvars>>

\* DOCS_TABLE.put_item of lines 556-564 and 755-766, and the 200 response.
RPutItem(p) ==
  LET b == RaceBlob(reqs[p].kind)
      item == IF reqs[p].kind = "upload"
              THEN OriginalItem(RaceUser, reqs[p].id, b.key, b.contentType, Len(b.body), clock)
              ELSE TailoredItem(RaceUser, reqs[p].id, b.key, Len(b.body), RaceSource,
                                "http://job", "ml", clock)
  IN /\ reqs[p].pc = "stored"
     /\ docs' = PutItem(docs, item)
     /\ reqs' = [reqs EXCEPT ![p].pc = "done"]
     /\ UNCHANGED <<blobs, apps, clock, nextId, last>>
     /\ UNCHANGED <<tvars, dvars>>

\* The response is returned and the next request of the slot may come.
RReturn(p) ==
  /\ reqs[p].pc \in {"done", "rejected"}
  /\ reqs' = [reqs EXCEPT ![p] = NoRequest]
  /\ UNCHANGED <<svars, tvars, dvars>>

RaceNext ==
  \/ \E p \in Slots, kind \in {"upload", "tailor"} : RCheck(p, kind)
  \/ \E p \in Slots : RPutObject(p)
  \/ \E p \in Slots : RPutItem(p)
  \/ \E p \in Slots : RReturn(p)

\* ------------------------------------- calls of _detect_section_order
\* No text has been given.
DNone ==
  /\ d_text = <<>>
  /\ d_order = <<>>
  /\ d_prev = <<>>
  /\ d_calls = 0
  /\ d_checked = FALSE
  /\ d_html = <<>>
  /\ d_ok = FALSE
  /\ c_text = <<>>
  /\ c_done = FALSE
  /\ c_html = <<>>

MaxDetectCalls == 2
\* Lines to cut resume texts from: the headings of SECTION_CANON, some of them
\* again in another case or with a colon, a name and a line that is no heading.
SectionPool ==
  << <<"experience">>, <<"j@x.io">>, <<"Education:">>, <<"EXPERIENCE">>, <<"skills">>,
     <<"header">>, <<"summary">>, <<"objective">>, <<"technical", "skills">>,
     <<"work", "experience">>, <<"projects">>, <<"education">>, <<"certifications">>,
     <<"awards">>, <<"publications">>, <<"activities">>, <<"volunteering">>, <<"Jane">> >>
SectionTexts ==
  ResumeTexts \cup {SubSeq(SectionPool, i, j) : i, j \in 1..Len(SectionPool)}

\* Longest output (in tokens) given to _order_ok.
MaxOrderHtmlLen == 3
OrderHtmls == SeqsUpTo({"experience", "Education", "skills", "jane"}, MaxOrderHtmlLen)

DInit ==
  /\ d_text \in SectionTexts
  /\ d_order = <<>>
  /\ d_prev = <<>>
  /\ d_calls = 0
  /\ d_checked = FALSE
  /\ d_html = <<>>
  /\ d_ok = FALSE
  /\ c_text = <<>>
  /\ c_done = FALSE
  /\ c_html = <<>>

\* section_order = _detect_section_order(resume_text)
DDetect ==
  /\ d_calls < MaxDetectCalls
  /\ d_order' = DetectSectionOrder(d_text)
  /\ d_prev' = d_order
  /\ d_calls' = d_calls + 1
  /\ ~ d_checked
  /\ UNCHANGED <<d_text, d_checked, d_html, d_ok, c_text, c_done, c_html>>
  /\ UNCHANGED <<svars, tvars, rvars>>

\* _order_ok(html), with section_order what line 262 detected
DOrderOk(html) ==
  /\ d_calls >= 1
  /\ ~ d_checked
  /\ d_checked' = TRUE
  /\ d_html' = html
  /\ d_ok' = OrderOk(html, d_order)
  /\ UNCHANGED <<d_text, d_order, d_prev, d_calls, c_text, c_done, c_html>>
  /\ UNCHANGED <<svars, tvars, rvars>>

DNext ==
  \/ DDetect
  \/ \E html \in OrderHtmls : DOrderOk(html)

Init == SInit /\ TInit /\ RInit /\ DNone
Spec == Init /\ [][StoreNext]_vars
SpecFail == Init /\ [][FailNext]_vars
InitQuota == QInit /\ TInit /\ RInit /\ DNone
SpecQuota == InitQuota /\ [][QuotaNext]_vars
SpecCounted == InitQuota /\ [][CountedNext]_vars
SpecRace == InitQuota /\ [][RaceNext]_vars
\* --------------------------------------------- _call_once on its own
\* Longest completion (in tokens) the backend answers with.
MaxCompletionLen == 3
CompletionVocab ==
  {"<!doctype html>", "<head>", "<style>", "</style>", "<STYLE>", "li{color:#fff}",
   "Jane", NL}
Completions == SeqsUpTo(CompletionVocab, MaxCompletionLen)

CInit ==
  /\ d_text = <<>>
  /\ d_order = <<>>
  /\ d_prev = <<>>
  /\ d_calls = 0
  /\ d_checked = FALSE
  /\ d_html = <<>>
  /\ d_ok = FALSE
  /\ c_text \in Completions
  /\ c_done = FALSE
  /\ c_html = <<>>

\* _call_once when _http_chat_completion returns normally with c_text
CCallOnce ==
  /\ ~ c_done
  /\ c_done' = TRUE
  /\ c_html' = CallOnce([kind |-> "ok", text |-> c_text])
  /\ UNCHANGED <<d_text, d_order, d_prev, d_calls, d_checked, d_html, d_ok, c_text>>
  /\ UNCHANGED <<svars, tvars, rvars>>

CNext == CCallOnce

InitCallOnce == SInit /\ TInit /\ RInit /\ CInit
SpecCallOnce == InitCallOnce /\ [][CNext]_vars

InitSections == SInit /\ TInit /\ RInit /\ DInit
SpecSections == InitSections /\ [][DNext]_vars

SpecTailor == Init /\ [][TNext]_vars

\* ------------------------------------------------ claims on the function
TReturned == t_pc = "returned"

\* C1: with a credential and OPENAI_MAX_RETRIES > 0, when the first attempt's
\* output fails verification exactly one further generation call is made, and
\* the function returns the retry's output if that passes both checks and the
\* first attempt's output, unchanged, if it does not.
C1_RetryOnceAdoptIfVerified ==
  (/\ ~ NoKey(t_key)
   /\ t_retries > 0
   /\ t_first # <<>>
   /\ ~ Verified(t_first, t_resume))
  => /\ t_pc \in {"attempt1", "returned"}
     /\ TReturned =>
          /\ t_prompts = <<"user", "retry_user">>
          /\ Verified(t_second, t_resume) => t_ret = t_second
          /\ ~ Verified(t_second, t_resume) => t_ret = t_first

\* C1 witness: the first output lacks the extracted name, the retry's output
\* passes and is the one returned.
C1_Witness ==
  /\ TReturned /\ ~ NoKey(t_key) /\ t_retries > 0
  /\ ExtractContactBits(t_resume).name # <<>>
  /\ ~ Contains(LowerSeq(t_first), LowerSeq(ExtractContactBits(t_resume).name))
  /\ Verified(t_second, t_resume)
  /\ t_ret = t_second /\ t_ret # t_first
  /\ Len(t_prompts) = 2

\* C2 as stated: for every OPENAI_MAX_RETRIES and backend behaviour one call of
\* the function issues at most two generation calls, exactly one when
\* OPENAI_MAX_RETRIES is 0 or the first output passes verification, and it
\* returns a string.
C2_Original ==
  /\ Len(t_prompts) <= 2
  /\ TReturned =>
       /\ t_ret # <<>>
       /\ (t_retries = 0 \/ (t_first # <<>> /\ Verified(t_first, t_resume)))
            => Len(t_prompts) = 1

\* C2 amended: the same with "exactly one call" said of the calls made with a
\* credential configured (without one the function makes no call at all).
\* No action has a guard on what the backend does, and each moves t_pc forward.
C2_AtMostTwoCalls ==
  /\ Len(t_prompts) <= 2
  /\ TReturned =>
       /\ t_ret # <<>>
       /\ (~ NoKey(t_key) /\ (t_retries = 0 \/ Verified(t_first, t_resume)))
            => Len(t_prompts) = 1
  /\ t_pc = "attempt1" => (t_html # <<>> /\ t_html = t_first)

\* C2 witness: OPENAI_MAX_RETRIES is 0, the only call failed, its output does
\* not pass verification, and the function returned after that one call.
C2_Witness ==
  /\ TReturned /\ ~ NoKey(t_key) /\ t_retries = 0
  /\ ~ Verified(t_first, t_resume)
  /\ Len(t_prompts) = 1 /\ t_ret = t_first

\* C3: without a credential the function makes no generation call, returns
\* for every resume text, and the page returned holds the resume text, with
\* "<" and ">" escaped, inside the preformatted block.
C3_FallbackNoCallEscaped ==
  NoKey(t_key) =>
    /\ t_prompts = <<>>
    /\ t_pc = "called" => ENABLED TFallback
    /\ TReturned =>
         LET text == Flatten(t_resume)
             block == <<"<pre>">> \o [i \in 1..Len(text) |-> EscAngle(text[i])] \o <<"</pre>">>
         IN /\ \E i \in 1..(Len(t_ret) - Len(block) + 1) :
                 SubSeq(t_ret, i, i + Len(block) - 1) = block
            /\ ~ HasTok(t_ret, {"<", ">"})

\* C3 witness: a resume text with "<" in it was rendered without a credential.
C3_Witness ==
  /\ TReturned /\ NoKey(t_key)
  /\ HasTok(Flatten(t_resume), {"<"})
  /\ HasTok(t_ret, {"&lt;"})
  /\ t_prompts = <<>>

\* ------------------------------------------------ claims on the handlers
\* The documents of an owner.
OwnerDocs(table, user_id) == {d \in table : d.userId = user_id}

Is5xx(status) == status \in 500..599

\* C4: a tailor request with its fields given, of an owner under quota, whose
\* source record exists with a storage key, whose lookup and writes go through,
\* is answered 200 and adds exactly one record, of kind tailored, with its blob
\* stored, whichever of the source read, the text extraction, the job-page
\* fetch and the generation calls fail.
C4_TailorAbsorbsSoftFailures ==
  [][ (/\ Idle /\ last'.op = "tailor"
       /\ last'.doc # 0
       /\ Cardinality(OwnerDocs(docs, last'.user)) < MAX_DOCS_PER_USER
       /\ \E s \in OwnerDocs(docs, last'.user) :
            s.documentId = last'.doc /\ s.s3Key # NoKeyGiven
       /\ last'.hit = "none" /\ "lookup" \notin last'.soft)
      => /\ last'.status = 200
         /\ \E t \in docs' \ docs :
              /\ docs' = docs \cup {t}
              /\ t.type = "resume_tailored"
              /\ t.userId = last'.user
              /\ t.s3Key \in DOMAIN blobs' ]_vars

\* C4 witness: a tailor answered 200 with its record written although the PDF
\* parser, the job-page fetch and every generation call failed.
C4_Witness ==
  /\ last.op = "tailor" /\ last.status = 200
  /\ {"extract", "fetch", "gen"} \subseteq last.soft
  /\ \E t \in docs : t.type = "resume_tailored" /\ t.sourceDocumentId = last.doc

\* C5: a request of the upload, tailor, list, delete or HTML-retrieval handler
\* that a store operation's failure ended is answered with a 5xx status.
C5_StoreFailureIs5xx ==
  (last.op \in {"upload", "tailor", "list", "delete", "html"} /\ last.hit # "none")
    => Is5xx(last.status)

\* C6: in an upload and in a tailor that pass the field checks, when the count is obtained and the owner
\* holds MAX_DOCS_PER_USER documents or more the answer is 429 and neither
\* store changes; when the count fails the request goes on as under quota: an
\* upload, and a tailor whose source is found, is answered 200 and adds one
\* record of the owner, and a tailor whose source is not found is answered 404.
C6_QuotaCheck ==
  [][ (Idle /\ last'.op \in {"upload", "tailor"}) =>
        LET held == OwnerDocs(docs, last'.user)
            goes == last'.op = "upload" \/ \E s \in held : s.documentId = last'.doc
        IN /\ ("count" \notin last'.soft /\ Cardinality(held) >= MAX_DOCS_PER_USER)
                => (last'.status = 429 /\ docs' = docs /\ blobs' = blobs)
           /\ ("count" \in last'.soft /\ goes)
                => /\ last'.status = 200
                   /\ \E t \in docs' \ docs : docs' = docs \cup {t} /\ t.userId = last'.user
           /\ ("count" \in last'.soft /\ ~ goes)
                => (last'.status = 404 /\ docs' = docs /\ blobs' = blobs) ]_vars

\* C6 witness: the owner was let past MAX_DOCS_PER_USER by a count that
\* failed, and the next request, whose count was obtained, is answered 429.
C6_Witness ==
  /\ last.op \in {"upload", "tailor"} /\ last.status = 429
  /\ Cardinality(OwnerDocs(docs, last.user)) > MAX_DOCS_PER_USER

\* C7: with requests one at a time and the count always obtained, no owner
\* holds more than MAX_DOCS_PER_USER records.
C7_AtMostMaxDocs ==
  \A d \in docs : Cardinality(OwnerDocs(docs, d.userId)) <= MAX_DOCS_PER_USER

\* C7 witness: the owner holds MAX_DOCS_PER_USER records, the last of them
\* tailored, and a further request was answered 429.
C7_Witness ==
  /\ last.status = 429
  /\ Cardinality(OwnerDocs(docs, last.user)) = MAX_DOCS_PER_USER
  /\ \E t \in docs : t.type = "resume_tailored"

\* C8: a request that passed the quota check is not turned away afterwards:
\* it goes on to its writes whatever the other request does, its record is in
\* the table when it is done, and no record is taken back.
C8_PassedCheckCompletes ==
  [][ /\ docs \subseteq docs'
      /\ \A p \in Slots :
           /\ reqs[p].pc = "checked" => reqs'[p].pc \in {"checked", "stored"}
           /\ reqs[p].pc = "stored" => reqs'[p].pc \in {"stored", "done"}
           /\ reqs'[p].pc = "done" =>
                \E d \in OwnerDocs(docs', RaceUser) : d.documentId = reqs'[p].id ]_vars

\* C8 witness: both requests read the count MAX_DOCS_PER_USER - 1, both are
\* done, and the owner holds more than MAX_DOCS_PER_USER records.
C8_Witness ==
  /\ \A p \in Slots : reqs[p].pc = "done" /\ reqs[p].seen = MAX_DOCS_PER_USER - 1
  /\ Cardinality(OwnerDocs(docs, RaceUser)) > MAX_DOCS_PER_USER

\* C9: a record of kind tailored is written by a tailor request of its owner
\* for the document its sourceDocumentId names, which that owner holds at that
\* time; and a tailored record leaves the table, or changes, only by a delete
\* request of its owner for its own documentId.
C9_SourceReferenceKept ==
  [][ /\ \A t \in docs' \ docs : t.type = "resume_tailored" =>
           /\ t.sourceDocumentId # 0
           /\ last'.op = "tailor" /\ last'.user = t.userId /\ last'.doc = t.sourceDocumentId
           /\ \E s \in OwnerDocs(docs, t.userId) : s.documentId = t.sourceDocumentId
      /\ \A t \in docs \ docs' : t.type = "resume_tailored" =>
           last'.op = "delete" /\ last'.user = t.userId /\ last'.doc = t.documentId ]_vars

\* C9 witness: after a delete, a tailored record whose source is gone.
C9_Witness ==
  /\ last.op = "delete" /\ last.status = 200
  /\ \E t \in docs :
       /\ t.type = "resume_tailored" /\ t.sourceDocumentId # 0
       /\ OwnerDocs(docs, t.userId) \cap {s \in docs : s.documentId = t.sourceDocumentId} = {}

\* C10: an upload, tailor, application-creation, list or retrieval request
\* leaves every record of the table as it is and the bytes under its storage
\* key as they are.
C10_DocumentImmutable ==
  [][ last'.op \in {"upload", "tailor", "application", "list", "html"} =>
        \A d \in docs :
          /\ d \in docs'
          /\ d.s3Key \in DOMAIN blobs =>
               /\ d.s3Key \in DOMAIN blobs'
               /\ blobs'[d.s3Key].body = blobs[d.s3Key].body ]_vars

\* C11: a delete request that names a documentId and no storage key, for
\* which the owner holds no record, is answered 200 and leaves the table and
\* the bucket as they are.
C11_NothingToDelete ==
  [][ (/\ Idle /\ last'.op = "delete"
       /\ last'.doc # 0 /\ last'.key = NoKeyGiven
       /\ \A d \in OwnerDocs(docs, last'.user) : d.documentId # last'.doc)
      => (last'.status = 200 /\ docs' = docs /\ blobs' = blobs) ]_vars

\* C11 witness: such a delete was answered while another owner holds a record
\* with the documentId named, and its blob.
C11_Witness ==
  /\ last.op = "delete" /\ last.status = 200
  /\ last.doc # 0 /\ last.key = NoKeyGiven
  /\ OwnerDocs(docs, last.user) = {}
  /\ \E d \in docs : d.documentId = last.doc /\ d.s3Key \in DOMAIN blobs

\* The lines of a text that look like a heading, the key of such a line, and
\* the lines that are the first of their key.
HeadLines(text) == {n \in 1..Len(text) : LooksLikeHeading(text[n])}
KeyAt(text, n) == HeadingKey(NormalizeHeading(text[n]))
FirstLines(text) ==
  {n \in HeadLines(text) : \A m \in HeadLines(text) : m < n => KeyAt(text, m) # KeyAt(text, n)}

\* C12: what _detect_section_order returns has 12 entries at most and no two
\* entries of one key; its i-th entry is the heading of the i-th line that is
\* the first of its key, so headings come in the order of their first
\* occurrence and none of the first 12 is left out; and a second call on the
\* text returns what the first returned.
C12_SectionOrderDetected ==
  d_calls >= 1 =>
    LET F == FirstLines(d_text)
    IN /\ Len(d_order) <= 12
       /\ Len(d_order) = Min(12, Cardinality(F))
       /\ \A i, j \in 1..Len(d_order) :
            i # j => HeadingKey(d_order[i]) # HeadingKey(d_order[j])
       /\ \A n \in F :
            LET i == Cardinality({m \in F : m <= n})
            IN i <= 12 => d_order[i] = NormalizeHeading(d_text[n])
       /\ d_calls >= 2 => d_order = d_prev

\* C12 witness: a text with more than 12 headings of different keys, with
\* "experience" before "Education:" and both again further down, was given
\* twice; 12 entries came back, "experience" before "Education".
C12_Witness ==
  /\ d_calls = 2
  /\ Cardinality(FirstLines(d_text)) > 12
  /\ Cardinality(HeadLines(d_text)) > Cardinality(FirstLines(d_text))
  /\ Len(d_order) = 12
  /\ \E i, j \in 1..12 :
       i < j /\ d_order[i] = <<"experience">> /\ d_order[j] = <<"Education">>

\* Where the key of the i-th detected heading first occurs in the lowercased
\* output, -1 when it does not occur.
FirstAt(html, order, i) == Find(LowerSeq(html), HeadingKey(NormalizeHeading(order[i])))

\* C13: _order_ok accepts an output exactly when no section order was
\* detected, or the key of every detected heading occurs in the lowercased
\* output and no heading first occurs before its predecessor does.
C13_OrderOkIff ==
  d_checked =>
    (d_ok <=>
       \/ d_order = <<>>
       \/ /\ \A i \in 1..Len(d_order) : FirstAt(d_html, d_order, i) # -1
          /\ \A i \in 2..Len(d_order) :
               FirstAt(d_html, d_order, i - 1) <= FirstAt(d_html, d_order, i))

\* C13 witness: every detected heading occurs in the output, one of them
\* before its predecessor, and the output was turned down.
C13_Witness ==
  /\ d_checked /\ ~ d_ok
  /\ Len(d_order) >= 2
  /\ \A i \in 1..Len(d_order) : FirstAt(d_html, d_order, i) # -1
  /\ \E i \in 2..Len(d_order) : FirstAt(d_html, d_order, i) < FirstAt(d_html, d_order, i - 1)

\* The page has a style block that holds a rule for li colour: an opening
\* style tag, the rule, and the closing tag, in that order.
HasLiRuleInStyle(html) ==
  \E i, j, k \in 1..Len(html) :
    /\ i < j /\ j < k
    /\ Lower(html[i]) = "<style>"
    /\ html[j] = "li{color:#fff}"
    /\ Lower(html[k]) = "</style>"
    /\ \A m \in (i + 1)..(k - 1) : Lower(html[m]) # "</style>"

\* C14: for every non-empty completion of a successful generation call, the
\* page _call_once returns begins with a doctype, contains a style block, and
\* that block contains a rule for li colour.
C14_PostProcessed ==
  (c_done /\ Strip(c_text) # <<>>) =>
    /\ Lower(c_html[1]) = "<!doctype html>"
    /\ HasLiRuleInStyle(c_html)

\* C15: in upload and tailor the record is written only after the blob write
\* succeeded: when the blob put fails the handler answers 500 and creates no
\* record, and every record a request creates has a storage key whose blob
\* that request wrote.
C15_RecordAfterBlob ==
  [][ (Idle /\ last'.op \in {"upload", "tailor"}) =>
        /\ last'.hit = "put_object" => (last'.status = 500 /\ docs' = docs)
        /\ \A d \in docs' \ docs :
             /\ last'.hit = "none"
             /\ d.s3Key \in DOMAIN blobs' ]_vars

\* C16: referential integrity: after any sequence of completed upload, tailor
\* and delete requests with no store failure, the storage key of every live
\* record names an existing blob.
C16_ReferentialIntegrity == \A d \in docs : d.s3Key \in DOMAIN blobs

\* C17: owner isolation on delete: a delete request of one owner, whatever
\* documentId and explicit key it carries, removes no record of another owner
\* and no blob stored under another owner's prefix.
C17_DeleteOwnOnly ==
  [][ (Idle /\ last'.op = "delete") =>
        /\ \A d \in docs \ docs' : d.userId = last'.user
        /\ \A k \in DOMAIN blobs \ DOMAIN blobs' : KeyOwner(k) = last'.user ]_vars

====
